---- MODULE Spec2Model ----
(***************************************************************************)
(* A model of combine_m3u.py: the script fetches every playlist named in   *)
(* M3U_LINKS, pairs each #EXTINF line with the stream URL that follows it, *)
(* files the pairs by group-title (one pair may be pinned), and writes the *)
(* groups back in sorted order.                                            *)
(*                                                                         *)
(* Text is a sequence of one-character strings, so that strip, startswith, *)
(* split and the group-title regular expression are computed on the        *)
(* characters the way Python computes them.                                *)
(***************************************************************************)
EXTENDS Integers, Sequences, FiniteSets, TLC

VARIABLES
    pc,               \* position in main()
    n_urls,           \* len(urls), 0 when M3U_LINKS is unset or holds no link
    url_idx,          \* 1-based index of the url the outer loop is at
    remaining,        \* lines of the current response the inner loop has not read
    line,             \* the line the inner loop read last
    current_extinf,   \* pending #EXTINF line, None when there is none
    grouped_streams,  \* group title -> list of (extinf, url)
    pinned_streams,   \* list holding the pinned (extinf, url), if any
    total_streams,    \* counter of stored pairs
    final_output,     \* list of output lines built by the re-assembly
    written,          \* whether open(args.output, "w") happened
    file_text,        \* text written to the output file
    n_success,        \* count of "Success: Fetched content" messages
    n_warnings,       \* count of "Error: ..." messages printed by the fetch
    run_in            \* the responses a whole run is applied to (SpecRun)

vars ==
    <<pc, n_urls, url_idx, remaining, line, current_extinf, grouped_streams,
      pinned_streams, total_streams, final_output, written, file_text,
      n_success, n_warnings, run_in>>

---------------------------------------------------------------------------
(* Bounds *)

MaxSources == 2

MaxLines == 4

MaxStreams == 2

MaxRunSources == 3

MaxRunLines == 2

MaxTwiceLines == 3

MaxDocLines == 4

---------------------------------------------------------------------------
(* Program constants and literals *)

AsciiLow ==
    <<" ", "!", "\"", "#", "$", "%", "&", "'", "(", ")", "*", "+", ",", "-",
      ".", "/", "0", "1", "2", "3", "4", "5", "6", "7", "8", "9", ":", ";",
      "<", "=", ">", "?", "@", "A", "B", "C", "D", "E", "F", "G", "H", "I",
      "J", "K", "L", "M", "N", "O", "P", "Q", "R", "S", "T", "U", "V", "W",
      "X", "Y", "Z", "[">>

AsciiMid ==
    <<"]", "^", "_">>

AsciiHigh ==
    <<"a", "b", "c", "d", "e", "f", "g", "h", "i", "j", "k", "l", "m", "n",
      "o", "p", "q", "r", "s", "t", "u", "v", "w", "x", "y", "z", "{", "|",
      "}", "~">>

DEFAULT_GROUP_TITLE ==
    <<"Z", "Z", " ", "-", " ", "U", "n", "s", "o", "r", "t", "e", "d">>

PINNED_CHANNEL_NAME ==
    <<"C", "o", "l", "o", "r", "s", " ", "M", "a", "r", "a", "t", "h", "i",
      " ", "H", "D">>

TagExtinf ==
    <<"#", "E", "X", "T", "I", "N", "F">>

TagExt ==
    <<"#", "E", "X", "T">>

SchemeHttp ==
    <<"h", "t", "t", "p", ":", "/", "/">>

SchemeHttps ==
    <<"h", "t", "t", "p", "s", ":", "/", "/">>

SchemeRtsp ==
    <<"r", "t", "s", "p", ":", "/", "/">>

GroupTitleKey ==
    <<"g", "r", "o", "u", "p", "-", "t", "i", "t", "l", "e", "=", "\"">>

HeaderLine ==
    <<"#", "E", "X", "T", "M", "3", "U">>

PinnedMarker ==
    <<"\n", "#", " ", "-", "-", "-", " ", "P", "I", "N", "N", "E", "D", " ",
      "T", "O", "P", " ", "C", "H", "A", "N", "N", "E", "L", " ", "-", "-",
      "-">>

GroupMarkerHead ==
    <<"\n", "#", " ", "-", "-", "-", " ", "G", "R", "O", "U", "P", " ", "S",
      "T", "A", "R", "T", ":", " ">>

GroupMarkerOpen ==
    <<" ", "(">>

GroupMarkerTail ==
    <<" ", "S", "t", "r", "e", "a", "m", "s", ")", " ", "-", "-", "-">>

---------------------------------------------------------------------------
(* Whitespace characters *)

\* The characters of str.isspace() that are not written with an escape:
\* U+000B, U+001C..U+001F, U+0085, U+00A0 and U+1680, each as itself.
VT ==
    ""

FS ==
    ""

GS ==
    ""

RS ==
    ""

US ==
    ""

NEL ==
    ""

NBSP ==
    " "

OGHAM ==
    " "

---------------------------------------------------------------------------
(* Input lines the responses are drawn from *)

LnHeader ==
    <<"#", "E", "X", "T", "M", "3", "U", " ", "u", "r", "l", "-", "t", "v",
      "g", "=", "\"", "e", "\"">>

LnPin ==
    <<"#", "E", "X", "T", "I", "N", "F", ":", "-", "1", " ", "g", "r", "o",
      "u", "p", "-", "t", "i", "t", "l", "e", "=", "\"", "S", "\"", ",", NBSP,
      "C", "o", "l", "o", "r", "s", " ", "M", "a", "r", "a", "t", "h", "i",
      " ", "H", "D">>

LnB ==
    <<"#", "E", "X", "T", "I", "N", "F", ":", "-", "1", " ", "g", "r", "o",
      "u", "p", "-", "t", "i", "t", "l", "e", "=", "\"", "n", "\"", ",", "B">>

LnA ==
    <<" ", "#", "E", "X", "T", "I", "N", "F", ":", "-", "1", " ", "g", "r",
      "o", "u", "p", "-", "t", "i", "t", "l", "e", "=", "\"", "n", "\"", ",",
      "A", " ">>

LnComma ==
    <<"#", "E", "X", "T", "I", "N", "F", ":", "-", "1", " ", "t", "v", "g",
      "-", "n", "a", "m", "e", "=", "\"", "a", ",", "b", "\"", ",", "C",
      "o", "l", "o", "r", "s", " ", "M", "a", "r", "a", "t", "h", "i", " ",
      "H", "D">>

LnUrl1 ==
    <<"h", "t", "t", "p", ":", "/", "/", "x", "/", "1">>

LnUrl2 ==
    <<" ", "r", "t", "s", "p", ":", "/", "/", "x", "/", "2", "\t">>

LnOpt ==
    <<"#", "E", "X", "T", "V", "L", "C", "O", "P", "T", ":", "a">>

LnKodi ==
    <<"#", "K", "O", "D", "I", "P", "R", "O", "P", ":", "a">>

LnBlank ==
    <<" ", NBSP>>

LnPath ==
    <<"/", "p", ".", "t", "s">>

Lines ==
    {LnHeader, LnPin, LnB, LnA, LnComma, LnUrl1, LnUrl2, LnOpt, LnKodi,
     LnBlank, LnPath}

RunLines ==
    {LnPin, LnUrl1}

---------------------------------------------------------------------------
(* Python's str and list primitives, on sequences of characters *)

\* None; an empty string is falsy in the same tests.
None ==
    <<>>

EmptyDict ==
    [g \in {} |-> <<>>]

Min(S) ==
    CHOOSE x \in S : \A y \in S : x <= y

Max(S) ==
    0 - Min({0 - x : x \in S})

\* The whitespace str.strip() removes: the characters c with c.isspace().
\* U+2000..U+200A, U+2028, U+2029, U+202F, U+205F and U+3000 are whitespace
\* as well; a string of a module cannot hold them.
IsSpace(c) ==
    c \in {" ", "\t", "\n", "\r", "\f", VT, FS, GS, RS, US, NEL, NBSP, OGHAM}

\* str.lstrip()
RECURSIVE lstrip(_)
lstrip(s) ==
    IF s = <<>> \/ ~IsSpace(s[1]) THEN s ELSE lstrip(Tail(s))

\* str.rstrip()
RECURSIVE rstrip(_)
rstrip(s) ==
    IF s = <<>> \/ ~IsSpace(s[Len(s)]) THEN s
    ELSE rstrip(SubSeq(s, 1, Len(s) - 1))

\* str.strip()
strip(s) ==
    rstrip(lstrip(s))

\* str.startswith(p)
startswith(s, p) ==
    /\ Len(s) >= Len(p)
    /\ SubSeq(s, 1, Len(p)) = p

\* ord(c)
Ord(c) ==
    IF c = "\t" THEN 9
    ELSE IF c = "\n" THEN 10
    ELSE IF c = "\f" THEN 12
    ELSE IF c = "\r" THEN 13
    ELSE IF c = VT THEN 11
    ELSE IF c = FS THEN 28
    ELSE IF c = GS THEN 29
    ELSE IF c = RS THEN 30
    ELSE IF c = US THEN 31
    ELSE IF c = NEL THEN 133
    ELSE IF c = NBSP THEN 160
    ELSE IF c = OGHAM THEN 5760
    ELSE IF \E i \in 1..Len(AsciiLow) : AsciiLow[i] = c
    THEN 31 + (CHOOSE i \in 1..Len(AsciiLow) : AsciiLow[i] = c)
    ELSE IF \E i \in 1..Len(AsciiMid) : AsciiMid[i] = c
    THEN 92 + (CHOOSE i \in 1..Len(AsciiMid) : AsciiMid[i] = c)
    ELSE 96 + (CHOOSE i \in 1..Len(AsciiHigh) : AsciiHigh[i] = c)

\* a < b on str: by code point, a proper prefix first
LexLess(a, b) ==
    \E i \in 1..(Len(a) + 1) :
        /\ i <= Len(b)
        /\ SubSeq(a, 1, i - 1) = SubSeq(b, 1, i - 1)
        /\ (i = Len(a) + 1 \/ Ord(a[i]) < Ord(b[i]))

\* sorted(S) for a set of str
RECURSIVE sorted(_)
sorted(S) ==
    IF S = {} THEN <<>>
    ELSE LET m == CHOOSE x \in S : \A y \in S : x = y \/ LexLess(x, y)
         IN  <<m>> \o sorted(S \ {m})

Digits ==
    <<"0", "1", "2", "3", "4", "5", "6", "7", "8", "9">>

\* str(n) for n >= 0, as the f-string formats len(streams)
RECURSIVE str(_)
str(n) ==
    IF n < 10 THEN <<Digits[n + 1]>>
    ELSE str(n \div 10) \o <<Digits[(n % 10) + 1]>>

\* sep.join(parts)
RECURSIVE join(_, _)
join(sep, parts) ==
    IF parts = <<>> THEN <<>>
    ELSE IF Len(parts) = 1 THEN parts[1]
    ELSE parts[1] \o sep \o join(sep, Tail(parts))

---------------------------------------------------------------------------
(* The helpers of combine_m3u.py *)

\* Variant: raise_for_status() is missing, an error response's body is parsed
fetch_m3u_content_no_raise(status, body) ==
    IF status = "timeout" THEN <<>> ELSE body

\* requests.get + raise_for_status: the body's lines on success, [] on a
\* timeout or any other request error.
fetch_m3u_content(status, body) ==
    IF status = "ok" THEN body ELSE <<>>

\* re.search(r'group-title="([^"]*)"', extinf_line), stripped, with the default
extract_group_title(extinf_line) ==
    LET k == Len(GroupTitleKey)
        n == Len(extinf_line)
        starts == {i \in 1..n :
                     /\ i + k - 1 <= n
                     /\ SubSeq(extinf_line, i, i + k - 1) = GroupTitleKey
                     /\ \E j \in (i + k)..n : extinf_line[j] = "\""}
    IN  IF starts = {} THEN DEFAULT_GROUP_TITLE
        ELSE LET b == Min(starts) + k
                 e == Min({j \in b..n : extinf_line[j] = "\""})
                 title == strip(SubSeq(extinf_line, b, e - 1))
             IN  IF title /= <<>> THEN title ELSE DEFAULT_GROUP_TITLE

\* extinf_line.split(',', 1): the text after the first comma, stripped
extract_channel_name(extinf_line) ==
    LET commas == {i \in 1..Len(extinf_line) : extinf_line[i] = ","}
    IN  IF commas = {} THEN <<>>
        ELSE strip(SubSeq(extinf_line, Min(commas) + 1, Len(extinf_line)))

---------------------------------------------------------------------------
(* The inner loop of main(): one line of one response.  The loop's state  *)
(* is a record st of current_extinf, grouped_streams, pinned_streams and   *)
(* total_streams.                                                          *)

InitialState ==
    [current_extinf  |-> None,
     grouped_streams |-> EmptyDict,
     pinned_streams  |-> <<>>,
     total_streams   |-> 0]

\* Variant: any non-blank line that is not an #EXTINF line counts as the URL
IsStreamUrlAnyLine(stripped_line) ==
    /\ stripped_line /= <<>>
    /\ ~startswith(stripped_line, TagExtinf)

\* stripped_line.startswith(('http://', 'https://', 'rtsp://'))
IsStreamUrl(stripped_line) ==
    \/ startswith(stripped_line, SchemeHttp)
    \/ startswith(stripped_line, SchemeHttps)
    \/ startswith(stripped_line, SchemeRtsp)

\* Variant: every match is pinned, the test of the slot is missing
IsPinnedEveryMatch(extinf, pinned) ==
    extract_channel_name(extinf) = PINNED_CHANNEL_NAME

\* channel_name == PINNED_CHANNEL_NAME and not pinned_streams
IsPinned(extinf, pinned) ==
    /\ extract_channel_name(extinf) = PINNED_CHANNEL_NAME
    /\ pinned = <<>>

\* Variant: the pair is inserted before the first pair of a greater name
AddToGroupByName(grouped, group, pair) ==
    LET old == IF group \in DOMAIN grouped THEN grouped[group] ELSE <<>>
        later == {i \in DOMAIN old :
                    LexLess(extract_channel_name(pair[1]),
                            extract_channel_name(old[i][1]))}
        at == IF later = {} THEN Len(old) + 1 ELSE Min(later)
    IN  [g \in (DOMAIN grouped) \cup {group} |->
            IF g = group
            THEN SubSeq(old, 1, at - 1) \o <<pair>> \o SubSeq(old, at, Len(old))
            ELSE grouped[g]]

\* grouped_streams[group] created on first use, then .append(pair)
AddToGroup(grouped, group, pair) ==
    [g \in (DOMAIN grouped) \cup {group} |->
        IF g = group
        THEN IF group \in DOMAIN grouped
             THEN Append(grouped[group], pair)
             ELSE <<pair>>
        ELSE grouped[g]]

\* Variant: a pair whose URL was stored before is dropped
StorePairDedupe(st, stripped_line) ==
    LET pair == <<st.current_extinf, stripped_line>>
        seen == \/ \E i \in DOMAIN st.pinned_streams :
                      st.pinned_streams[i][2] = stripped_line
                \/ \E g \in DOMAIN st.grouped_streams :
                      \E i \in DOMAIN st.grouped_streams[g] :
                          st.grouped_streams[g][i][2] = stripped_line
    IN  IF seen
        THEN [st EXCEPT !.current_extinf = None]
        ELSE IF IsPinned(st.current_extinf, st.pinned_streams)
        THEN [st EXCEPT !.pinned_streams = Append(@, pair),
                        !.total_streams = @ + 1,
                        !.current_extinf = None]
        ELSE [st EXCEPT !.grouped_streams =
                            AddToGroup(@, extract_group_title(st.current_extinf),
                                       pair),
                        !.total_streams = @ + 1,
                        !.current_extinf = None]

\* Variant: the pinned pair is filed in its group as well
StorePairPinAlsoGrouped(st, stripped_line) ==
    LET pair == <<st.current_extinf, stripped_line>>
        filed == [st EXCEPT !.grouped_streams =
                              AddToGroup(@, extract_group_title(st.current_extinf),
                                         pair),
                            !.total_streams = @ + 1,
                            !.current_extinf = None]
    IN  IF IsPinned(st.current_extinf, st.pinned_streams)
        THEN [filed EXCEPT !.pinned_streams = Append(@, pair)]
        ELSE filed

\* Variant: the counter is incremented in the grouping branch only
StorePairPinUncounted(st, stripped_line) ==
    LET pair == <<st.current_extinf, stripped_line>>
    IN  IF IsPinned(st.current_extinf, st.pinned_streams)
        THEN [st EXCEPT !.pinned_streams = Append(@, pair),
                        !.current_extinf = None]
        ELSE [st EXCEPT !.grouped_streams =
                            AddToGroup(@, extract_group_title(st.current_extinf),
                                       pair),
                        !.total_streams = @ + 1,
                        !.current_extinf = None]

\* The branch taken when a stream URL follows a pending #EXTINF
StorePair(st, stripped_line) ==
    LET pair == <<st.current_extinf, stripped_line>>
    IN  IF IsPinned(st.current_extinf, st.pinned_streams)
        THEN [st EXCEPT !.pinned_streams = Append(@, pair),
                        !.total_streams = @ + 1,
                        !.current_extinf = None]
        ELSE [st EXCEPT !.grouped_streams =
                            AddToGroup(@, extract_group_title(st.current_extinf),
                                       pair),
                        !.total_streams = @ + 1,
                        !.current_extinf = None]

\* Variant: every line that begins with '#' keeps the pending metadata
DropsPendingNonHash(stripped_line) ==
    /\ stripped_line /= <<>>
    /\ ~startswith(stripped_line, <<"#">>)

\* Variant: the test that the line is not empty is missing
DropsPendingBlank(stripped_line) ==
    ~startswith(stripped_line, TagExt)

\* stripped_line and not stripped_line.startswith('#EXT')
DropsPending(stripped_line) ==
    /\ stripped_line /= <<>>
    /\ ~startswith(stripped_line, TagExt)

\* Variant: an #EXTINF line does not replace metadata that is pending
ParseLineKeepFirst(st, raw) ==
    LET stripped_line == strip(raw)
    IN  IF startswith(stripped_line, TagExtinf)
        THEN IF st.current_extinf /= None
             THEN st
             ELSE [st EXCEPT !.current_extinf = stripped_line]
        ELSE IF st.current_extinf /= None /\ IsStreamUrl(stripped_line)
        THEN StorePair(st, stripped_line)
        ELSE IF st.current_extinf /= None /\ DropsPending(stripped_line)
        THEN [st EXCEPT !.current_extinf = None]
        ELSE st

\* Variant: a '#EXT' line read while metadata is pending is kept with it
ParseLineKeepDirectives(st, raw) ==
    LET stripped_line == strip(raw)
    IN  IF startswith(stripped_line, TagExtinf)
        THEN [st EXCEPT !.current_extinf = stripped_line]
        ELSE IF st.current_extinf /= None /\ IsStreamUrl(stripped_line)
        THEN StorePair(st, stripped_line)
        ELSE IF st.current_extinf /= None /\ DropsPending(stripped_line)
        THEN [st EXCEPT !.current_extinf = None]
        ELSE IF st.current_extinf /= None /\ stripped_line /= <<>>
        THEN [st EXCEPT !.current_extinf = @ \o <<"\n">> \o stripped_line]
        ELSE st

\* Variant: a stream URL read while no metadata is pending is stored as an
\* Entry without metadata
ParseLineBareUri(st, raw) ==
    LET stripped_line == strip(raw)
    IN  IF startswith(stripped_line, TagExtinf)
        THEN [st EXCEPT !.current_extinf = stripped_line]
        ELSE IF IsStreamUrl(stripped_line)
        THEN StorePair(st, stripped_line)
        ELSE IF st.current_extinf /= None /\ DropsPending(stripped_line)
        THEN [st EXCEPT !.current_extinf = None]
        ELSE st

\* The body of "for line in lines"
ParseLine(st, raw) ==
    LET stripped_line == strip(raw)
    IN  IF startswith(stripped_line, TagExtinf)
        THEN [st EXCEPT !.current_extinf = stripped_line]
        ELSE IF st.current_extinf /= None /\ IsStreamUrl(stripped_line)
        THEN StorePair(st, stripped_line)
        ELSE IF st.current_extinf /= None /\ DropsPending(stripped_line)
        THEN [st EXCEPT !.current_extinf = None]
        ELSE st

\* "for line in lines" over a whole response
RECURSIVE ParseLines(_, _)
ParseLines(st, lines) ==
    IF lines = <<>> THEN st
    ELSE ParseLines(ParseLine(st, Head(lines)), Tail(lines))

---------------------------------------------------------------------------
(* Re-assembly *)

\* Variant: the keys in descending order
RECURSIVE Reversed(_)
Reversed(q) ==
    IF q = <<>> THEN <<>> ELSE Reversed(Tail(q)) \o <<Head(q)>>

sorted_groups_desc(grouped) ==
    Reversed(sorted(DOMAIN grouped))

\* sorted(grouped_streams.keys())
sorted_groups(grouped) ==
    sorted(DOMAIN grouped)

\* Variant: the group separator without the line break it begins with
GroupMarkerNoBreak(group_title, n) ==
    Tail(GroupMarkerHead) \o group_title \o GroupMarkerOpen \o str(n)
        \o GroupMarkerTail

\* the f-string of the group separator
GroupMarker(group_title, n) ==
    GroupMarkerHead \o group_title \o GroupMarkerOpen \o str(n)
        \o GroupMarkerTail

\* for extinf, url_line in streams: append both
RECURSIVE StreamLines(_)
StreamLines(streams) ==
    IF streams = <<>> THEN <<>>
    ELSE <<streams[1][1], streams[1][2]>> \o StreamLines(Tail(streams))

\* "if pinned_streams:" and its three appends
PinnedSection(pinned) ==
    IF pinned /= <<>>
    THEN <<PinnedMarker, pinned[1][1], pinned[1][2]>>
    ELSE <<>>

\* "for group_title in sorted_groups:" and its appends
RECURSIVE GroupSections(_, _)
GroupSections(grouped, order) ==
    IF order = <<>> THEN <<>>
    ELSE <<GroupMarker(order[1], Len(grouped[order[1]]))>>
            \o StreamLines(grouped[order[1]])
            \o GroupSections(grouped, Tail(order))

\* final_output after the re-assembly
Assembled(pinned, grouped) ==
    <<HeaderLine>> \o PinnedSection(pinned)
        \o GroupSections(grouped, sorted_groups(grouped))

\* '\n'.join(final_output) + '\n'
FileText(output) ==
    join(<<"\n">>, output) \o <<"\n">>

---------------------------------------------------------------------------
(* main() run as one function of the responses its fetches receive.  A    *)
(* response is a record of the fetch's status and the body's lines.        *)

FetchStatus ==
    {"ok", "timeout", "error"}

\* Variant: current_extinf is not reset at the start of a response
ProcessUrlKeepPending(acc, resp) ==
    LET lines == fetch_m3u_content(resp.status, resp.body)
        counted == [acc EXCEPT
                      !.n_success = IF resp.status = "ok" THEN @ + 1 ELSE @,
                      !.n_warnings = IF resp.status = "ok" THEN @ ELSE @ + 1]
    IN  IF lines = <<>>
        THEN counted
        ELSE [counted EXCEPT !.st = ParseLines(@, lines)]

\* One iteration of "for url in urls" on the accumulated state
ProcessUrl(acc, resp) ==
    LET lines == fetch_m3u_content(resp.status, resp.body)
        counted == [acc EXCEPT
                      !.n_success = IF resp.status = "ok" THEN @ + 1 ELSE @,
                      !.n_warnings = IF resp.status = "ok" THEN @ ELSE @ + 1]
    IN  IF lines = <<>>
        THEN counted
        ELSE [counted EXCEPT
                !.st = ParseLines([@ EXCEPT !.current_extinf = None], lines)]

\* Variant: the first failed fetch ends the loop
RECURSIVE ProcessUrlsStop(_, _)
ProcessUrlsStop(acc, resps) ==
    IF resps = <<>> THEN acc
    ELSE IF Head(resps).status /= "ok"
    THEN ProcessUrl(acc, Head(resps))
    ELSE ProcessUrlsStop(ProcessUrl(acc, Head(resps)), Tail(resps))

\* "for url in urls" over the responses
RECURSIVE ProcessUrls(_, _)
ProcessUrls(acc, resps) ==
    IF resps = <<>> THEN acc
    ELSE ProcessUrls(ProcessUrl(acc, Head(resps)), Tail(resps))

\* Variant: the header line of the first response, when it has one, is
\* written in place of the literal
mainKeepsHeader(resps) ==
    LET acc == ProcessUrls([st |-> InitialState, n_success |-> 0,
                            n_warnings |-> 0], resps)
        first == fetch_m3u_content(resps[1].status, resps[1].body)
        hdr == IF first /= <<>> /\ startswith(strip(first[1]), HeaderLine)
               THEN strip(first[1])
               ELSE HeaderLine
        out == <<hdr>> \o Tail(Assembled(acc.st.pinned_streams,
                                         acc.st.grouped_streams))
        wr  == resps /= <<>> /\ acc.st.total_streams > 0
    IN  [st           |-> acc.st,
         n_success    |-> acc.n_success,
         n_warnings   |-> acc.n_warnings,
         final_output |-> IF resps = <<>> THEN <<>> ELSE out,
         written      |-> wr,
         file_text    |-> IF wr THEN FileText(out) ELSE <<>>]

\* The whole of main(): the loop, the re-assembly and the write
main(resps) ==
    LET acc == ProcessUrls([st |-> InitialState, n_success |-> 0,
                            n_warnings |-> 0], resps)
        out == Assembled(acc.st.pinned_streams, acc.st.grouped_streams)
        wr  == resps /= <<>> /\ acc.st.total_streams > 0
    IN  [st           |-> acc.st,
         n_success    |-> acc.n_success,
         n_warnings   |-> acc.n_warnings,
         final_output |-> IF resps = <<>> THEN <<>> ELSE out,
         written      |-> wr,
         file_text    |-> IF wr THEN FileText(out) ELSE <<>>]

SeqsUpTo(S, n) ==
    UNION {[1..k -> S] : k \in 0..n}

RunResponses ==
    {[status |-> "ok", body |-> b] : b \in SeqsUpTo(RunLines, MaxRunLines)}
        \cup {[status |-> s, body |-> <<>>] : s \in {"timeout", "error"}}

\* One successful response supplied twice, its body drawn from every line
TwiceInputs ==
    {<<[status |-> "ok", body |-> b], [status |-> "ok", body |-> b]>> :
        b \in SeqsUpTo(Lines, MaxTwiceLines)}

RunInputs ==
    UNION {[1..k -> RunResponses] : k \in 1..MaxRunSources} \cup TwiceInputs

\* One response that succeeds, its body drawn from every input line
DocInputs ==
    {<<[status |-> "ok", body |-> b]>> : b \in SeqsUpTo(Lines, MaxDocLines)}

---------------------------------------------------------------------------
(* The state machine of main(), one step per fetch and per line read *)

State ==
    [current_extinf  |-> current_extinf,
     grouped_streams |-> grouped_streams,
     pinned_streams  |-> pinned_streams,
     total_streams   |-> total_streams]

\* A body of k lines; the text of each is drawn when the loop reads it.
Unread(k) ==
    [i \in 1..k |-> <<>>]

Init ==
    /\ pc = "start"
    /\ n_urls \in 0..MaxSources
    /\ url_idx = 0
    /\ remaining = 0
    /\ line = <<>>
    /\ current_extinf = None
    /\ grouped_streams = EmptyDict
    /\ pinned_streams = <<>>
    /\ total_streams = 0
    /\ final_output = <<>>
    /\ written = FALSE
    /\ file_text = <<>>
    /\ n_success = 0
    /\ n_warnings = 0
    /\ run_in = <<>>

\* M3U_LINKS unset, or set without a link: main() returns before the loop
Start ==
    /\ pc = "start"
    /\ run_in = <<>>
    /\ IF n_urls = 0
       THEN pc' = "done" /\ url_idx' = url_idx
       ELSE pc' = "fetch" /\ url_idx' = 1
    /\ UNCHANGED <<n_urls, remaining, line, current_extinf, grouped_streams,
                   pinned_streams, total_streams, final_output, written,
                   file_text, n_success, n_warnings, run_in>>

\* The outer loop moves to the next url, or ends
NextUrl ==
    IF url_idx < n_urls
    THEN pc' = "fetch" /\ url_idx' = url_idx + 1
    ELSE pc' = "assemble" /\ url_idx' = url_idx

\* lines = fetch_m3u_content(url, timeout); "if not lines: continue"
Fetch ==
    /\ pc = "fetch"
    /\ \E status \in FetchStatus, k \in 0..MaxLines :
          LET lines == fetch_m3u_content(status, Unread(k))
          IN  /\ n_success' = IF status = "ok" THEN n_success + 1 ELSE n_success
              /\ n_warnings' = IF status = "ok" THEN n_warnings
                               ELSE n_warnings + 1
              /\ IF lines = <<>>
                 THEN /\ NextUrl
                      /\ UNCHANGED <<remaining, current_extinf>>
                 ELSE /\ pc' = "lines"
                      /\ url_idx' = url_idx
                      /\ remaining' = Len(lines)
                      /\ current_extinf' = None
    /\ UNCHANGED <<n_urls, line, grouped_streams, pinned_streams,
                   total_streams, final_output, written, file_text, run_in>>

\* One iteration of "for line in lines"; the lines drawn keep the counter
\* of stored pairs within MaxStreams.
ReadLine ==
    /\ pc = "lines"
    /\ remaining > 0
    /\ \E raw \in Lines :
          \E st \in {ParseLine(State, raw)} :
              /\ st.total_streams <= MaxStreams
              /\ line' = raw
              /\ current_extinf' = st.current_extinf
              /\ grouped_streams' = st.grouped_streams
              /\ pinned_streams' = st.pinned_streams
              /\ total_streams' = st.total_streams
    /\ remaining' = remaining - 1
    /\ IF remaining = 1
       THEN NextUrl
       ELSE pc' = "lines" /\ url_idx' = url_idx
    /\ UNCHANGED <<n_urls, final_output, written, file_text, n_success,
                   n_warnings, run_in>>

\* final_output = ["#EXTM3U"] and the appends of the re-assembly
Assemble ==
    /\ pc = "assemble"
    /\ final_output' = Assembled(pinned_streams, grouped_streams)
    /\ pc' = "write"
    /\ UNCHANGED <<n_urls, url_idx, remaining, line, current_extinf,
                   grouped_streams, pinned_streams, total_streams, written,
                   file_text, n_success, n_warnings, run_in>>

\* "if total_streams > 0": the file is opened for writing and written
WriteFile ==
    /\ pc = "write"
    /\ total_streams > 0
    /\ written' = TRUE
    /\ file_text' = FileText(final_output)
    /\ pc' = "done"
    /\ UNCHANGED <<n_urls, url_idx, remaining, line, current_extinf,
                   grouped_streams, pinned_streams, total_streams,
                   final_output, n_success, n_warnings, run_in>>

\* "else": only the message, the file is not touched
NoStreams ==
    /\ pc = "write"
    /\ ~(total_streams > 0)
    /\ pc' = "done"
    /\ UNCHANGED <<n_urls, url_idx, remaining, line, current_extinf,
                   grouped_streams, pinned_streams, total_streams,
                   final_output, written, file_text, n_success, n_warnings,
                   run_in>>

Next ==
    \/ Start
    \/ Fetch
    \/ ReadLine
    \/ Assemble
    \/ WriteFile
    \/ NoStreams

Spec ==
    Init /\ [][Next]_vars

---------------------------------------------------------------------------
(* main() applied in one step to responses drawn at the start *)

InitRun ==
    /\ pc = "start"
    /\ run_in \in RunInputs
    /\ n_urls = Len(run_in)
    /\ url_idx = 0
    /\ remaining = 0
    /\ line = <<>>
    /\ current_extinf = None
    /\ grouped_streams = EmptyDict
    /\ pinned_streams = <<>>
    /\ total_streams = 0
    /\ final_output = <<>>
    /\ written = FALSE
    /\ file_text = <<>>
    /\ n_success = 0
    /\ n_warnings = 0

\* The value of the loop variable "line" when the loops have ended: the last
\* line of the last response whose lines were read, the empty text when no
\* line was read
RECURSIVE LastLineRead(_)
LastLineRead(resps) ==
    IF resps = <<>> THEN <<>>
    ELSE LET lines == fetch_m3u_content(resps[Len(resps)].status,
                                        resps[Len(resps)].body)
         IN  IF lines /= <<>> THEN lines[Len(lines)]
             ELSE LastLineRead(SubSeq(resps, 1, Len(resps) - 1))

RunMain ==
    /\ pc = "start"
    /\ run_in /= <<>>
    /\ \E r \in {main(run_in)} :
           /\ current_extinf' = r.st.current_extinf
           /\ grouped_streams' = r.st.grouped_streams
           /\ pinned_streams' = r.st.pinned_streams
           /\ total_streams' = r.st.total_streams
           /\ final_output' = r.final_output
           /\ written' = r.written
           /\ file_text' = r.file_text
           /\ n_success' = r.n_success
           /\ n_warnings' = r.n_warnings
    /\ line' = LastLineRead(run_in)
    /\ pc' = "done"
    /\ url_idx' = n_urls
    /\ UNCHANGED <<n_urls, remaining, run_in>>

NextRun ==
    RunMain

SpecRun ==
    InitRun /\ [][NextRun]_vars

---------------------------------------------------------------------------
(* main() applied in one step to a single response *)

InitDoc ==
    /\ pc = "start"
    /\ run_in \in DocInputs
    /\ n_urls = Len(run_in)
    /\ url_idx = 0
    /\ remaining = 0
    /\ line = <<>>
    /\ current_extinf = None
    /\ grouped_streams = EmptyDict
    /\ pinned_streams = <<>>
    /\ total_streams = 0
    /\ final_output = <<>>
    /\ written = FALSE
    /\ file_text = <<>>
    /\ n_success = 0
    /\ n_warnings = 0

SpecDoc ==
    InitDoc /\ [][NextRun]_vars

---------------------------------------------------------------------------
(* Vocabulary of the properties *)

\* text.split('\n')
RECURSIVE SplitLines(_)
SplitLines(text) ==
    LET brk == {i \in 1..Len(text) : text[i] = "\n"}
    IN  IF brk = {} THEN <<text>>
        ELSE <<SubSeq(text, 1, Min(brk) - 1)>>
                \o SplitLines(SubSeq(text, Min(brk) + 1, Len(text)))

\* The lines of a written document: the text before each line break
FileLines(text) ==
    LET parts == SplitLines(text)
    IN  SubSeq(parts, 1, Len(parts) - 1)

\* Positions of the metadata lines in a list of output lines; the line after
\* each is the Entry's stream URI.
OutEntryIdx(out) ==
    {i \in 1..Len(out) : startswith(out[i], TagExtinf)}

\* Positions of the group separator lines
MarkerIdx(out) ==
    {i \in 1..Len(out) : startswith(out[i], GroupMarkerHead)}

GroupedPairs ==
    UNION {{grouped_streams[g][i] : i \in DOMAIN grouped_streams[g]} :
             g \in DOMAIN grouped_streams}

PinnedPairs ==
    {pinned_streams[i] : i \in DOMAIN pinned_streams}

StoredPairs ==
    PinnedPairs \cup GroupedPairs

RECURSIVE SumLen(_, _)
SumLen(grouped, keys) ==
    IF keys = {} THEN 0
    ELSE LET g == CHOOSE x \in keys : TRUE
         IN  Len(grouped[g]) + SumLen(grouped, keys \ {g})

\* Number of stored pairs, counted in the containers themselves
PairCount ==
    Len(pinned_streams) + SumLen(grouped_streams, DOMAIN grouped_streams)

RECURSIVE UriCountIn(_, _, _)
UriCountIn(grouped, keys, uri) ==
    IF keys = {} THEN 0
    ELSE LET g == CHOOSE x \in keys : TRUE
         IN  Cardinality({i \in DOMAIN grouped[g] : grouped[g][i][2] = uri})
                + UriCountIn(grouped, keys \ {g}, uri)

\* Number of stored pairs whose stream URI is uri
UriCount(grouped, pinned, uri) ==
    Cardinality({i \in DOMAIN pinned : pinned[i][2] = uri})
        + UriCountIn(grouped, DOMAIN grouped, uri)

HasPinName(pair) ==
    extract_channel_name(pair[1]) = PINNED_CHANNEL_NAME

Assembling ==
    pc \in {"write", "done"} /\ final_output /= <<>>

\* A step of the inner loop that reads a stream URL while metadata is pending
ClosesEntry ==
    /\ pc = "lines"
    /\ remaining' = remaining - 1
    /\ current_extinf /= None
    /\ IsStreamUrl(strip(line'))

---------------------------------------------------------------------------
(* C1 *)

\* C1: every written document has exactly one line beginning with #EXTM3U,
\* and that line is the first; a header line read from a source is never
\* written back.
C1_OneHeaderFirst ==
    written =>
        LET d == FileLines(file_text)
        IN  /\ Len(d) >= 1
            /\ startswith(d[1], HeaderLine)
            /\ \A i \in 2..Len(d) : ~startswith(d[i], HeaderLine)

\* A document was written by a run whose last line read was a source header.
C1_Witness ==
    /\ pc = "done"
    /\ written
    /\ n_success >= 2
    /\ line = LnHeader

---------------------------------------------------------------------------
(* C2 *)

\* C2 as stated: no two Entries of the written output share a stream URI.
C2_NoSharedUri ==
    written =>
        \A i, j \in OutEntryIdx(final_output) :
            i /= j => final_output[i + 1] /= final_output[j + 1]

\* C2 as amended: no deduplication is performed.  Every pending metadata line
\* closed out by a stream URL adds one stored pair for that URI, whether or
\* not the URI was stored before, and the output holds one Entry per stored
\* pair.
C2_EveryPairKept ==
    /\ [](Assembling =>
            \A i \in OutEntryIdx(final_output) :
                Cardinality({j \in OutEntryIdx(final_output) :
                               final_output[j + 1] = final_output[i + 1]})
                    = UriCount(grouped_streams, pinned_streams,
                               final_output[i + 1]))
    /\ [][ClosesEntry =>
            UriCount(grouped_streams', pinned_streams', strip(line'))
                = UriCount(grouped_streams, pinned_streams, strip(line')) + 1]_vars

\* Two sources were read and two Entries of the written output share a URI.
C2_Witness ==
    /\ pc = "done"
    /\ written
    /\ n_success >= 2
    /\ \E i, j \in OutEntryIdx(final_output) :
          i /= j /\ final_output[i + 1] = final_output[j + 1]

---------------------------------------------------------------------------
(* C3 *)

C3_State ==
    /\ Len(pinned_streams) <= 1
    /\ \A p \in PinnedPairs : HasPinName(p)
    /\ pinned_streams = <<>> => \A p \in GroupedPairs : ~HasPinName(p)
    /\ (Assembling /\ \E p \in StoredPairs : HasPinName(p)) =>
          /\ Len(pinned_streams) = 1
          /\ Len(final_output) >= 4
          /\ final_output[1] = HeaderLine
          /\ final_output[3] = pinned_streams[1][1]
          /\ final_output[4] = pinned_streams[1][2]
          /\ Min(OutEntryIdx(final_output)) = 3
          /\ \A i \in MarkerIdx(final_output) : i > 4
          /\ Cardinality(OutEntryIdx(final_output)) = total_streams

C3_Step ==
    /\ pinned_streams /= <<>> => pinned_streams' = pinned_streams
    /\ ClosesEntry =>
          IF pinned_streams = <<>>
             /\ extract_channel_name(current_extinf) = PINNED_CHANNEL_NAME
          THEN /\ pinned_streams' = <<<<current_extinf, strip(line')>>>>
               /\ grouped_streams' = grouped_streams
          ELSE pinned_streams' = pinned_streams

\* C3: when some stored Entry has the pinned display name, the first such
\* Entry in reading order is the pinned one, it is the first Entry of the
\* output, ahead of every group, and pinning it stores it in the pinned slot
\* alone, so that the output holds one Entry per closed-out pair.
C3_Pinning ==
    []C3_State /\ [][C3_Step]_vars

\* The pinned Entry was written first, and a later Entry of the same name,
\* read from another source, sits in a group.
C3_Witness ==
    /\ pc = "done"
    /\ written
    /\ n_success >= 2
    /\ pinned_streams /= <<>>
    /\ \E p \in GroupedPairs : HasPinName(p)

---------------------------------------------------------------------------
(* C4 *)

\* C4: a run ends with the output file written exactly when at least one
\* pair was stored; a run none of whose fetches succeeded leaves the file
\* untouched and has printed one error message per source.
C4_WriteIffEntries ==
    /\ pc /= "done" => ~written
    /\ ~written => file_text = <<>>
    /\ pc = "done" =>
          /\ written <=> PairCount > 0
          /\ n_urls > 0 => n_success + n_warnings = n_urls
          /\ n_success = 0 => ~written /\ n_warnings = n_urls

\* Two sources, both fetches failed: nothing written, two messages.
C4_Witness ==
    /\ pc = "done"
    /\ n_urls >= 2
    /\ n_success = 0
    /\ n_warnings = n_urls
    /\ ~written

---------------------------------------------------------------------------
(* C5 *)

IsOk(resp) ==
    resp.status = "ok"

\* C5: the stored pairs and the written file of a run equal those of the run
\* on the same responses with the failed ones removed.
C5_FailureIsolated ==
    pc = "done" =>
        \E r \in {main(SelectSeq(run_in, IsOk))} :
            /\ written = r.written
            /\ file_text = r.file_text
            /\ grouped_streams = r.st.grouped_streams
            /\ pinned_streams = r.st.pinned_streams
            /\ total_streams = r.st.total_streams

\* A failed fetch between two sources that each contributed an Entry.
C5_Witness ==
    /\ pc = "done"
    /\ written
    /\ Len(run_in) = 3
    /\ run_in[1].status = "ok"
    /\ run_in[2].status /= "ok"
    /\ run_in[3].status = "ok"
    /\ main(<<run_in[1]>>).st.total_streams >= 1
    /\ total_streams > main(<<run_in[1]>>).st.total_streams

---------------------------------------------------------------------------
(* Vocabulary of the properties of one response (SpecDoc) *)

\* The lines of the single response
Doc ==
    run_in[1].body

IsExtinfLine(l) ==
    startswith(strip(l), TagExtinf)

IsUrlLine(l) ==
    IsStreamUrl(strip(l))

HasExtinfBefore(doc, j) ==
    \E i \in 1..(j - 1) : IsExtinfLine(doc[i])

\* Position of the most recent metadata line before line j
LastExtinfBefore(doc, j) ==
    Max({i \in 1..(j - 1) : IsExtinfLine(doc[i])})

\* The line is a group separator for the label g
IsMarkerOf(l, g) ==
    \E n \in 0..Len(l) : l = GroupMarker(g, n)

---------------------------------------------------------------------------
(* C6 *)

\* C6: every stored pair joins a stream URL with the most recent metadata
\* line before it, so a metadata line directly followed by another one is
\* replaced and is the metadata of no Entry: there are no more pairs than
\* metadata lines that are the most recent one before some URL.
C6_LatestMetadataWins ==
    pc = "done" =>
        /\ \A p \in StoredPairs :
              \E j \in 1..Len(Doc) :
                  /\ IsUrlLine(Doc[j])
                  /\ p[2] = strip(Doc[j])
                  /\ HasExtinfBefore(Doc, j)
                  /\ p[1] = strip(Doc[LastExtinfBefore(Doc, j)])
        /\ PairCount = total_streams
        /\ total_streams <=
              Cardinality({LastExtinfBefore(Doc, j) :
                             j \in {k \in 1..Len(Doc) :
                                      IsUrlLine(Doc[k])
                                      /\ HasExtinfBefore(Doc, k)}})

\* Two different metadata lines in a row, then a URL: one Entry was stored.
C6_Witness ==
    /\ pc = "done"
    /\ Len(Doc) >= 3
    /\ IsExtinfLine(Doc[1])
    /\ IsExtinfLine(Doc[2])
    /\ strip(Doc[1]) /= strip(Doc[2])
    /\ IsUrlLine(Doc[3])
    /\ total_streams = 1
    /\ StoredPairs = {<<strip(Doc[2]), strip(Doc[3])>>}

---------------------------------------------------------------------------
(* C7 *)

Labels ==
    {extract_group_title(p[1]) : p \in GroupedPairs}

LabelAt(out, i) ==
    CHOOSE g \in Labels : IsMarkerOf(out[i], g)

\* C7: in the assembled output every group label has exactly one separator
\* line, the separators come in strictly increasing order of their labels,
\* every Entry after the pinned one belongs to the group of the nearest
\* separator above it, and the pinned Entry precedes all separators.
C7_GroupOrder ==
    Assembling =>
        LET out == final_output
            M == MarkerIdx(out)
        IN  /\ \A i \in M : \E g \in Labels : IsMarkerOf(out[i], g)
            /\ \A g \in Labels :
                  Cardinality({i \in M : IsMarkerOf(out[i], g)}) = 1
            /\ \A i, j \in M :
                  i < j => LexLess(LabelAt(out, i), LabelAt(out, j))
            /\ \A e \in OutEntryIdx(out) :
                  \/ pinned_streams /= <<>> /\ e = 3
                  \/ /\ \E i \in M : i < e
                     /\ extract_group_title(out[e])
                          = LabelAt(out, Max({k \in M : k < e}))
            /\ pinned_streams /= <<>> => \A i \in M : i > 4

\* Two Entries arrived with the greater label first; the output has the two
\* groups in increasing order.
C7_Witness ==
    /\ pc = "done"
    /\ written
    /\ Len(Doc) = 4
    /\ IsExtinfLine(Doc[1]) /\ IsUrlLine(Doc[2])
    /\ IsExtinfLine(Doc[3]) /\ IsUrlLine(Doc[4])
    /\ LexLess(extract_group_title(strip(Doc[3])),
               extract_group_title(strip(Doc[1])))
    /\ Cardinality(MarkerIdx(final_output)) = 2

---------------------------------------------------------------------------
(* C8 *)

\* C8 as stated: inside each group section the Entries are in non-decreasing
\* order of their display names.
C8_SortedByName ==
    Assembling =>
        LET out == final_output
            M == MarkerIdx(out)
        IN  \A e1, e2 \in OutEntryIdx(out) :
                (/\ e1 < e2
                 /\ \E i \in M : i < e1
                 /\ ~\E k \in M : e1 < k /\ k < e2)
                => ~LexLess(extract_channel_name(out[e2]),
                            extract_channel_name(out[e1]))

\* C8 as amended: inside each group the Entries are emitted in the order in
\* which they were stored (source-list order, then line order).  Storing a
\* pair in a group appends it after the pairs already there, and the
\* section of a group lists its pairs in that order.
C8_ArrivalOrder ==
    /\ [](Assembling =>
            \A i \in MarkerIdx(final_output) :
                \E g \in DOMAIN grouped_streams :
                    /\ IsMarkerOf(final_output[i], g)
                    /\ i + 2 * Len(grouped_streams[g]) <= Len(final_output)
                    /\ \A k \in 1..Len(grouped_streams[g]) :
                          /\ final_output[i + 2 * k - 1]
                                = grouped_streams[g][k][1]
                          /\ final_output[i + 2 * k]
                                = grouped_streams[g][k][2])
    /\ [][(ClosesEntry /\ pinned_streams' = pinned_streams) =>
            LET g == extract_group_title(current_extinf)
                old == IF g \in DOMAIN grouped_streams
                       THEN grouped_streams[g] ELSE <<>>
            IN  /\ DOMAIN grouped_streams' = DOMAIN grouped_streams \cup {g}
                /\ grouped_streams'[g]
                      = old \o <<<<current_extinf, strip(line')>>>>
                /\ \A h \in DOMAIN grouped_streams :
                      h /= g => grouped_streams'[h] = grouped_streams[h]]_vars

\* A written group holds two Entries, the second with the lesser name.
C8_Witness ==
    /\ pc = "done"
    /\ written
    /\ \E g \in DOMAIN grouped_streams :
          /\ Len(grouped_streams[g]) >= 2
          /\ LexLess(extract_channel_name(grouped_streams[g][2][1]),
                     extract_channel_name(grouped_streams[g][1][1]))

---------------------------------------------------------------------------
(* C9 *)

SameDocumentTwice ==
    /\ pc = "done"
    /\ Len(run_in) = 2
    /\ run_in[1] = run_in[2]
    /\ run_in[1].status = "ok"

\* C9 as stated: the run on [D, D] writes what the run on [D] writes.
C9_Idempotent ==
    SameDocumentTwice =>
        \E r \in {main(<<run_in[1]>>)} :
            /\ written = r.written
            /\ file_text = r.file_text

\* C9 as amended: the run on [D, D] stores and emits every Entry of D twice,
\* with the pinned Entry of the run on [D]; what it writes equals what the
\* run on [D] writes only when D yields no Entry and neither run writes.
C9_TwiceTheEntries ==
    SameDocumentTwice =>
        \E r \in {main(<<run_in[1]>>)} :
            /\ total_streams = 2 * r.st.total_streams
            /\ Cardinality(OutEntryIdx(final_output))
                  = 2 * Cardinality(OutEntryIdx(r.final_output))
            /\ pinned_streams = r.st.pinned_streams
            /\ (written = r.written /\ file_text = r.file_text)
                  <=> r.st.total_streams = 0

\* The same document with an Entry that is not the pinned one, supplied
\* twice, and a file written.
C9_Witness ==
    /\ SameDocumentTwice
    /\ written
    /\ main(<<run_in[1]>>).written
    /\ pinned_streams = <<>>
    /\ \E g \in DOMAIN grouped_streams : Len(grouped_streams[g]) = 2

---------------------------------------------------------------------------
(* C10 *)

\* A line that begins with '#' and is not a metadata line
IsDirectiveLine(l) ==
    /\ startswith(strip(l), <<"#">>)
    /\ ~IsExtinfLine(l)

\* C10 as stated: a metadata line, then any directive line, then a URL
\* yields the Entry of that metadata line and that URL.
C10_AnyDirectiveKeepsPending ==
    pc = "done" =>
        \A i \in 1..(Len(Doc) - 2) :
            (/\ IsExtinfLine(Doc[i])
             /\ IsDirectiveLine(Doc[i + 1])
             /\ IsUrlLine(Doc[i + 2]))
            => <<strip(Doc[i]), strip(Doc[i + 2])>> \in StoredPairs

\* A line that leaves pending metadata set: blank, or beginning with '#EXT'
KeepsPending(l) ==
    \/ strip(l) = <<>>
    \/ startswith(strip(l), TagExt)

\* The URL at line j closes an Entry: a metadata line precedes it and only
\* lines that keep it pending lie between the most recent one and j
ClosesAt(doc, j) ==
    /\ IsUrlLine(doc[j])
    /\ HasExtinfBefore(doc, j)
    /\ \A k \in (LastExtinfBefore(doc, j) + 1)..(j - 1) : KeepsPending(doc[k])

\* C10 as amended: only blank lines and lines beginning with '#EXT' leave a
\* pending Entry intact; any other line between the metadata line and the
\* URL, a '#' line such as '#KODIPROP:...' included, clears the pending
\* metadata and the URL then yields no Entry.
C10_ExtDirectiveKeepsPending ==
    pc = "done" =>
        /\ \A j \in 1..Len(Doc) :
              ClosesAt(Doc, j) =>
                  <<strip(Doc[LastExtinfBefore(Doc, j)]), strip(Doc[j])>>
                      \in StoredPairs
        /\ total_streams
              = Cardinality({j \in 1..Len(Doc) : ClosesAt(Doc, j)})

\* A metadata line, a '#' line that does not begin with '#EXT', a URL: no
\* Entry; and the same with a '#EXT' line in between yields one.
C10_Witness ==
    /\ pc = "done"
    /\ Len(Doc) = 3
    /\ IsExtinfLine(Doc[1])
    /\ IsDirectiveLine(Doc[2])
    /\ ~startswith(strip(Doc[2]), TagExt)
    /\ IsUrlLine(Doc[3])
    /\ total_streams = 0
    /\ main(<<[status |-> "ok", body |-> <<Doc[1], LnOpt, Doc[3]>>]>>)
          .st.total_streams = 1

---------------------------------------------------------------------------
(* Vocabulary of the properties of the lines between a metadata line and  *)
(* its URL                                                                 *)

\* The state of the inner loop after the first k lines of the response
After(k) ==
    ParseLines(InitialState, SubSeq(Doc, 1, k))

NonBlank(l) ==
    strip(l) /= <<>>

StripAll(lines) ==
    [k \in DOMAIN lines |-> strip(lines[k])]

\* The lines of the file the run wrote, none when it wrote no file
WrittenLines ==
    IF written THEN FileLines(file_text) ELSE <<>>

\* A separator line of the re-assembly, as it stands in the file
IsSeparatorLine(l) ==
    startswith(l, <<"#", " ", "-", "-", "-">>)

\* The block occurs in the lines as consecutive lines
Occurs(block, lines) ==
    \E e \in 1..(Len(lines) - Len(block) + 1) :
        SubSeq(lines, e, e + Len(block) - 1) = block

---------------------------------------------------------------------------
(* C11 *)

\* C11 as stated: the directive lines between an Entry's metadata line and
\* its URL are written, in their order, between that metadata line and that
\* URL.
C11_DirectivesRetained ==
    pc = "done" =>
        \A j \in 1..Len(Doc) :
            ClosesAt(Doc, j) =>
                LET i == LastExtinfBefore(Doc, j)
                    between == SelectSeq(SubSeq(Doc, i + 1, j - 1), NonBlank)
                IN  Occurs(<<strip(Doc[i])>> \o StripAll(between)
                               \o <<strip(Doc[j])>>, WrittenLines)

\* C11 as amended: a '#EXT' directive line between a metadata line and its
\* URL keeps the Entry pending but is not stored and not written.  Every
\* Entry is written as its metadata line immediately followed by its URL,
\* and the file holds no line other than the header, the separators with
\* the empty line before each, the metadata lines and the URLs.
C11_DirectivesDropped ==
    pc = "done" =>
        /\ \A j \in 1..Len(Doc) :
              ClosesAt(Doc, j) =>
                  Occurs(<<strip(Doc[LastExtinfBefore(Doc, j)]),
                           strip(Doc[j])>>, WrittenLines)
        /\ \A e \in 2..Len(WrittenLines) :
              \/ WrittenLines[e] = <<>>
              \/ IsSeparatorLine(WrittenLines[e])
              \/ /\ startswith(WrittenLines[e], TagExtinf)
                 /\ e < Len(WrittenLines)
                 /\ IsStreamUrl(WrittenLines[e + 1])
              \/ /\ IsStreamUrl(WrittenLines[e])
                 /\ startswith(WrittenLines[e - 1], TagExtinf)

\* A metadata line, a '#EXT' directive line and a URL were read; the Entry
\* was written and the directive line is not in the file.
C11_Witness ==
    /\ pc = "done"
    /\ written
    /\ \E j \in 3..Len(Doc) :
          /\ ClosesAt(Doc, j)
          /\ LastExtinfBefore(Doc, j) = j - 2
          /\ IsDirectiveLine(Doc[j - 1])
          /\ \A e \in 1..Len(WrittenLines) : WrittenLines[e] /= strip(Doc[j - 1])

---------------------------------------------------------------------------
(* C12 *)

\* A non-blank line that does not begin with '#'
IsUriLikeLine(l) ==
    /\ NonBlank(l)
    /\ ~startswith(strip(l), <<"#">>)

\* The line begins with one of the three schemes
HasStreamScheme(l) ==
    \/ startswith(strip(l), <<"h", "t", "t", "p", ":", "/", "/">>)
    \/ startswith(strip(l), <<"h", "t", "t", "p", "s", ":", "/", "/">>)
    \/ startswith(strip(l), <<"r", "t", "s", "p", ":", "/", "/">>)

\* Metadata is pending when line j of the response is read
PendingAt(j) ==
    After(j - 1).current_extinf /= None

\* C12 as stated: every non-blank line without a leading '#', read while
\* metadata is pending, closes the Entry: it is stored and written with the
\* pending metadata line and the pending metadata is cleared.
C12_AnyUriCloses ==
    pc = "done" =>
        \A j \in 1..Len(Doc) :
            (IsUriLikeLine(Doc[j]) /\ PendingAt(j)) =>
                /\ After(j).total_streams = After(j - 1).total_streams + 1
                /\ After(j).current_extinf = None
                /\ Occurs(<<After(j - 1).current_extinf, strip(Doc[j])>>,
                          WrittenLines)

\* C12 as amended: only a line beginning with 'http://', 'https://' or
\* 'rtsp://' closes the pending Entry.  Any other non-blank line without a
\* leading '#' (a local path, a URI of another scheme) clears the pending
\* metadata, stores nothing and is not written.
C12_SchemeUrlCloses ==
    pc = "done" =>
        \A j \in 1..Len(Doc) :
            (IsUriLikeLine(Doc[j]) /\ PendingAt(j)) =>
                IF HasStreamScheme(Doc[j])
                THEN /\ After(j).total_streams
                           = After(j - 1).total_streams + 1
                     /\ After(j).current_extinf = None
                     /\ Occurs(<<After(j - 1).current_extinf,
                                 strip(Doc[j])>>, WrittenLines)
                ELSE /\ After(j)
                           = [After(j - 1) EXCEPT !.current_extinf = None]
                     /\ \A e \in 1..Len(WrittenLines) :
                           WrittenLines[e] /= strip(Doc[j])

\* A metadata line, a local path, a URL: the path cleared the pending
\* metadata and no Entry was stored.
C12_Witness ==
    /\ pc = "done"
    /\ Len(Doc) = 3
    /\ IsExtinfLine(Doc[1])
    /\ IsUriLikeLine(Doc[2])
    /\ ~HasStreamScheme(Doc[2])
    /\ HasStreamScheme(Doc[3])
    /\ total_streams = 0
    /\ ~written

---------------------------------------------------------------------------
(* C13 *)

\* C13 as stated: a URL read while no metadata is pending yields an Entry
\* without a metadata line, and the URL is written.
C13_BareUriAccepted ==
    pc = "done" =>
        \A j \in 1..Len(Doc) :
            (HasStreamScheme(Doc[j]) /\ ~PendingAt(j)) =>
                /\ After(j).total_streams = After(j - 1).total_streams + 1
                /\ \E e \in 1..Len(WrittenLines) :
                      WrittenLines[e] = strip(Doc[j])

\* C13 as amended: a URL read while no metadata is pending (at the start of
\* the response, directly after another URL, or after a line that cleared the
\* pending metadata) is discarded: the loop's state is unchanged by it, and
\* the file holds a URL only directly below the metadata line it closed, so
\* that it has as many URL lines as Entries were stored.
C13_BareUriDiscarded ==
    pc = "done" =>
        /\ \A j \in 1..Len(Doc) :
              (HasStreamScheme(Doc[j]) /\ ~PendingAt(j)) =>
                  After(j) = After(j - 1)
        /\ \A e \in 1..Len(WrittenLines) :
              HasStreamScheme(WrittenLines[e]) =>
                  /\ e > 1
                  /\ startswith(WrittenLines[e - 1], TagExtinf)
        /\ Cardinality({e \in 1..Len(WrittenLines) :
                          HasStreamScheme(WrittenLines[e])})
              = IF written THEN total_streams ELSE 0
        /\ total_streams
              = Cardinality({j \in 1..Len(Doc) :
                               HasStreamScheme(Doc[j]) /\ PendingAt(j)})

\* An Entry, then a second URL directly after the first: a file was written
\* with one Entry and the second URL is not in it.
C13_Witness ==
    /\ pc = "done"
    /\ written
    /\ Len(Doc) = 3
    /\ IsExtinfLine(Doc[1])
    /\ HasStreamScheme(Doc[2])
    /\ HasStreamScheme(Doc[3])
    /\ strip(Doc[3]) /= strip(Doc[2])
    /\ total_streams = 1
    /\ \A e \in 1..Len(WrittenLines) : WrittenLines[e] /= strip(Doc[3])

---------------------------------------------------------------------------
(* C14 *)

\* The bodies of the responses that were parsed
Bodies ==
    [s \in DOMAIN run_in |->
        fetch_m3u_content(run_in[s].status, run_in[s].body)]

\* A header line of a source that carries attributes
IsAttrHeaderLine(l) ==
    /\ startswith(strip(l), HeaderLine)
    /\ strip(l) /= HeaderLine

\* C14 as stated: when the first source's first line is a header with
\* attributes, the header line of the written document is that line.
C14_FirstHeaderKept ==
    (/\ pc = "done"
     /\ written
     /\ Bodies[1] /= <<>>
     /\ IsAttrHeaderLine(Bodies[1][1]))
    => WrittenLines[1] = strip(Bodies[1][1])

\* C14 as amended: the header line of the output is always the literal
\* '#EXTM3U' without attributes; the header line of every source, the first
\* one included, is discarded with its attributes.
C14_HeaderAlwaysDefault ==
    pc = "done" =>
        /\ final_output /= <<>> /\ final_output[1] = HeaderLine
        /\ written =>
              /\ WrittenLines[1] = HeaderLine
              /\ \A s \in DOMAIN Bodies :
                    \A j \in 1..Len(Bodies[s]) :
                        IsAttrHeaderLine(Bodies[s][j]) =>
                            \A e \in 1..Len(WrittenLines) :
                                WrittenLines[e] /= strip(Bodies[s][j])

\* Two sources that both begin with a header carrying an attribute; a file
\* was written.
C14_Witness ==
    /\ pc = "done"
    /\ written
    /\ Len(run_in) = 2
    /\ Bodies[1] /= <<>> /\ IsAttrHeaderLine(Bodies[1][1])
    /\ Bodies[2] /= <<>> /\ IsAttrHeaderLine(Bodies[2][1])
    /\ WrittenLines[1] = HeaderLine

---------------------------------------------------------------------------
(* C15 *)

\* The positions of the blank lines among the lines d
BlankIdx(d) ==
    {e \in 1..Len(d) : strip(d[e]) = <<>>}

\* The positions of the separator lines among the lines d
SeparatorIdx(d) ==
    {e \in 1..Len(d) : IsSeparatorLine(d[e])}

\* The text ends with one line break, not two
OneTrailingBreak(text) ==
    /\ Len(text) >= 2
    /\ text[Len(text)] = "\n"
    /\ text[Len(text) - 1] /= "\n"

\* C15 as stated: no line of the written document is blank, and the document
\* ends with exactly one line break.
C15_NoBlankLine ==
    written =>
        /\ BlankIdx(FileLines(file_text)) = {}
        /\ OneTrailingBreak(file_text)

\* C15 as amended: the written document has exactly one empty line before
\* each separator line (the one of the pinned section and the one of each
\* group) and no other blank line; it ends with exactly one line break.
C15_BlankBeforeSeparators ==
    written =>
        LET d == FileLines(file_text)
            B == BlankIdx(d)
            S == SeparatorIdx(d)
        IN  /\ OneTrailingBreak(file_text)
            /\ \A e \in B : d[e] = <<>> /\ e > 1 /\ e + 1 \in S
            /\ \A e \in S : e - 1 \in B
            /\ Cardinality(S)
                  = Len(pinned_streams) + Cardinality(DOMAIN grouped_streams)
            /\ Len(d) = 1 + 2 * Cardinality(S) + 2 * total_streams

\* A written document with the pinned section and a group: two empty lines.
C15_Witness ==
    /\ pc = "done"
    /\ written
    /\ pinned_streams /= <<>>
    /\ DOMAIN grouped_streams /= {}
    /\ LET d == FileLines(file_text)
       IN  Cardinality(BlankIdx(d)) >= 2 /\ d[2] = <<>>

---------------------------------------------------------------------------
(* C16 *)

\* The text after the last comma of the line, scanned from the right
RECURSIVE TextAfterLastComma(_)
TextAfterLastComma(l) ==
    IF l = <<>> \/ l[Len(l)] = "," THEN <<>>
    ELSE TextAfterLastComma(SubSeq(l, 1, Len(l) - 1)) \o <<l[Len(l)]>>

\* The same, trimmed; empty for a line without a comma
AfterLastComma(l) ==
    IF \A i \in 1..Len(l) : l[i] /= "," THEN <<>>
    ELSE strip(TextAfterLastComma(l))

\* C16: the name matched against the pin target is the trimmed text after the
\* last comma of the metadata line, so when some stored Entry has the pin
\* target after its last comma, an Entry of that kind holds the pinned slot,
\* also when an attribute value before the title contains a comma.
C16_LastCommaName ==
    pc = "done" =>
        ((\E p \in StoredPairs : AfterLastComma(p[1]) = PINNED_CHANNEL_NAME)
         => /\ pinned_streams /= <<>>
            /\ AfterLastComma(pinned_streams[1][1]) = PINNED_CHANNEL_NAME)

---------------------------------------------------------------------------
(* C17 *)

\* The pending metadata line names the pin target, by the name the program
\* extracts or by the text after its last comma
PendingNamesPin ==
    \/ extract_channel_name(current_extinf) = PINNED_CHANNEL_NAME
    \/ AfterLastComma(current_extinf) = PINNED_CHANNEL_NAME

C17_Step ==
    /\ pinned_streams /= <<>> => pinned_streams' = pinned_streams
    /\ (pinned_streams = <<>> /\ pinned_streams' /= <<>>) =>
          /\ ClosesEntry
          /\ pinned_streams' = <<<<current_extinf, strip(line')>>>>
          /\ grouped_streams' = grouped_streams
          /\ total_streams' = total_streams + 1
    /\ (ClosesEntry /\ pinned_streams /= <<>> /\ PendingNamesPin) =>
          LET g == extract_group_title(current_extinf)
              old == IF g \in DOMAIN grouped_streams
                     THEN grouped_streams[g] ELSE <<>>
          IN  /\ g \in DOMAIN grouped_streams'
              /\ grouped_streams'[g]
                    = old \o <<<<current_extinf, strip(line')>>>>
              /\ total_streams' = total_streams + 1

\* C17: the pinned slot never holds more than one Entry; once filled it is
\* never changed; the step that fills it files nothing in a group; and every
\* later Entry that names the pin target is appended to its own group.
C17_PinnedSlot ==
    [](Len(pinned_streams) <= 1) /\ [][C17_Step]_vars

\* The line just read closed a second Entry naming the pin target while the
\* slot was filled: it is the last pair of its group.
C17_Witness ==
    /\ pc = "lines"
    /\ pinned_streams /= <<>>
    /\ current_extinf = None
    /\ IsUrlLine(line)
    /\ total_streams >= 2
    /\ \E g \in DOMAIN grouped_streams :
          LET last == grouped_streams[g][Len(grouped_streams[g])]
          IN  /\ HasPinName(last)
              /\ last[2] = strip(line)
              /\ last /= pinned_streams[1]

---------------------------------------------------------------------------
(* C18 *)

\* The response with its blank lines removed
WithoutBlanks ==
    <<[status |-> "ok", body |-> SelectSeq(Doc, NonBlank)]>>

\* C18: a blank line leaves the state of the inner loop as it was, and the
\* run on a response stores and writes what the run on the same response
\* without its blank lines stores and writes.
C18_BlankTransparent ==
    pc = "done" =>
        /\ \A j \in 1..Len(Doc) : ~NonBlank(Doc[j]) => After(j) = After(j - 1)
        /\ \E r \in {main(WithoutBlanks)} :
              /\ r.st = State
              /\ r.written = written
              /\ r.file_text = file_text

\* A blank line between a metadata line and its URL; the Entry was written.
C18_Witness ==
    /\ pc = "done"
    /\ written
    /\ Len(Doc) = 3
    /\ IsExtinfLine(Doc[1])
    /\ ~NonBlank(Doc[2])
    /\ Doc[2] /= <<>>
    /\ IsUrlLine(Doc[3])
    /\ StoredPairs = {<<strip(Doc[1]), strip(Doc[3])>>}

---------------------------------------------------------------------------
(* C19 *)

\* The pairs stored in a state of the inner loop
PairsOf(st) ==
    {st.pinned_streams[i] : i \in DOMAIN st.pinned_streams}
        \cup UNION {{st.grouped_streams[g][i] :
                        i \in DOMAIN st.grouped_streams[g]} :
                      g \in DOMAIN st.grouped_streams}

\* The state in which the run on source s alone ends
Alone(s) ==
    main(<<run_in[s]>>).st

RECURSIVE SumAlone(_)
SumAlone(n) ==
    IF n = 0 THEN 0 ELSE SumAlone(n - 1) + Alone(n).total_streams

\* C19: every source is parsed from the state of no pending metadata, so
\* the run stores exactly the Entries its sources yield one by one: as many
\* as the runs on each source alone store together, and no pair that no
\* single source yields; metadata left pending at the end of a source is
\* paired with no URL of the next.
C19_NoPendingAcrossSources ==
    pc = "done" =>
        /\ total_streams = SumAlone(Len(run_in))
        /\ StoredPairs = UNION {PairsOf(Alone(s)) : s \in DOMAIN run_in}

\* The first source ended on a metadata line, the second began with a URL,
\* and no Entry was stored.
C19_Witness ==
    /\ pc = "done"
    /\ Len(run_in) = 2
    /\ IsOk(run_in[1]) /\ IsOk(run_in[2])
    /\ run_in[1].body /= <<>> /\ run_in[2].body /= <<>>
    /\ IsExtinfLine(run_in[1].body[Len(run_in[1].body)])
    /\ Alone(1).current_extinf /= None
    /\ IsUrlLine(run_in[2].body[1])
    /\ total_streams = 0
    /\ ~written

---------------------------------------------------------------------------
(* C20 *)

RECURSIVE CopiesIn(_, _, _)
CopiesIn(grouped, keys, pair) ==
    IF keys = {} THEN 0
    ELSE LET g == CHOOSE x \in keys : TRUE
         IN  Cardinality({i \in DOMAIN grouped[g] : grouped[g][i] = pair})
                + CopiesIn(grouped, keys \ {g}, pair)

\* Number of places, in the slot and the groups, that hold the pair
Copies(grouped, pinned, pair) ==
    Cardinality({i \in DOMAIN pinned : pinned[i] = pair})
        + CopiesIn(grouped, DOMAIN grouped, pair)

C20_State ==
    /\ total_streams = PairCount
    /\ \A g \in DOMAIN grouped_streams : grouped_streams[g] /= <<>>
    /\ Assembling =>
          /\ Cardinality(OutEntryIdx(final_output)) = total_streams
          /\ \A e \in OutEntryIdx(final_output) :
                /\ e < Len(final_output)
                /\ Cardinality({f \in OutEntryIdx(final_output) :
                                  /\ final_output[f] = final_output[e]
                                  /\ final_output[f + 1] = final_output[e + 1]})
                      = Copies(grouped_streams, pinned_streams,
                               <<final_output[e], final_output[e + 1]>>)
    /\ written =>
          LET d == FileLines(file_text)
          IN  /\ Cardinality(OutEntryIdx(d)) = total_streams
              /\ \A p \in StoredPairs : Occurs(<<p[1], p[2]>>, d)

C20_Step ==
    LET pair == <<current_extinf, strip(line')>>
    IN  IF ClosesEntry
        THEN /\ total_streams' = total_streams + 1
             /\ Copies(grouped_streams', pinned_streams', pair)
                   = Copies(grouped_streams, pinned_streams, pair) + 1
             /\ \A p \in StoredPairs \ {pair} :
                   Copies(grouped_streams', pinned_streams', p)
                       = Copies(grouped_streams, pinned_streams, p)
             /\ startswith(current_extinf, TagExtinf)
             /\ current_extinf = strip(current_extinf)
        ELSE /\ total_streams' = total_streams
             /\ grouped_streams' = grouped_streams
             /\ pinned_streams' = pinned_streams
             /\ (pc = "lines" /\ IsExtinfLine(line')
                 /\ remaining' = remaining - 1)
                   => current_extinf' = strip(line')

\* C20: in every state the counter equals the number of stored pairs and no
\* group is empty; a step that closes an Entry stores the pair of the
\* trimmed metadata line and the trimmed URL in one more place and changes
\* nothing else that is stored, every other step stores nothing; the output
\* holds each stored pair as many times as it is stored, the metadata line
\* directly above the URL.
C20_Conservation ==
    []C20_State /\ [][C20_Step]_vars

\* Two Entries were closed, the first pinned, the second filed in a group,
\* and both were written.
C20_Witness ==
    /\ pc = "done"
    /\ written
    /\ total_streams = 2
    /\ Len(pinned_streams) = 1
    /\ DOMAIN grouped_streams /= {}
    /\ Cardinality(OutEntryIdx(FileLines(file_text))) = 2

====
